---- MODULE Spec2Model ----
(***************************************************************************)
(* Job orchestration of the topic-discovery backend: the Redis-backed job  *)
(* queue (backend/services/job_queue.py), the background pipeline task     *)
(* (backend/services/pipeline.py) and the labelling fallbacks              *)
(* (backend/services/llm.py).                                              *)
(*                                                                         *)
(* Every action is one await-delimited step of a coroutine: the event loop *)
(* runs a coroutine without interruption up to its next await, and a Redis *)
(* pipeline() is a MULTI/EXEC transaction, applied in one step.            *)
(***************************************************************************)
EXTENDS Integers, FiniteSets, Sequences, TLC

\* config.py:91
MAX_CONCURRENT_JOBS == 3

\* Job ids the clients of Spec may allocate.
MaxJobs == 2
\* Job ids the clients of SpecAdmission may allocate (one more than the ceiling).
MaxBurstJobs == 4
\* Concurrent request handlers of Spec and of SpecAdmission.
NumClients == 1
NumBurstClients == 2
\* Batches the Encoder reports through its progress callback.
EncBatches == 2
\* Topics the Analyzer finds for a job.
NumTopics == 2

Ids == 1..(IF MaxJobs > MaxBurstJobs THEN MaxJobs ELSE MaxBurstJobs)
Clients == 1..(IF NumClients > NumBurstClients THEN NumClients ELSE NumBurstClients)
Topics == 1..NumTopics

VARIABLES
    jobs,      \* tdh:job:{id}          the job hash
    results,   \* tdh:job:{id}:result   the stored result
    texts,     \* tdh:texts:{id}        TRUE when the key exists
    vectors,   \* tdh:embeddings:{id}   TRUE when the key exists
    active,    \* tdh:active_jobs       the set of active job ids
    pc,        \* position of the background task of each job id
    loc,       \* locals of the background task of each job id
    enc,       \* the encode thread of each job id and its queues
    client,    \* position and arguments of each request handler
    last,      \* what the last finished call of each request handler returned
    deleted,   \* job ids for which delete_job has returned True
    overdue    \* job ids whose run has lasted longer than PIPELINE_TIMEOUT_SECONDS

vars == <<jobs, results, texts, vectors, active, pc, loc, enc, client, last,
          deleted, overdue>>

store == <<jobs, results, texts, vectors, active>>

(***************************************************************************)
(* The store                                                               *)
(***************************************************************************)

\* HGETALL of a key that does not exist: get_job returns None.
NoJob == [exists |-> FALSE, status |-> "none", progress |-> -1, error |-> "none",
          config |-> -1, cfgIteration |-> -1, ttl |-> FALSE]

NoResult == [exists |-> FALSE]

\* The hash written by create_job; of the config field, config carries
\* cachedJobId (0: not derived) and cfgIteration the entry "iteration" (-1:
\* the config has none).
NewJob(src, iteration) ==
    [exists |-> TRUE, status |-> "queued", progress |-> 0, error |-> "",
     config |-> src, cfgIteration |-> iteration, ttl |-> TRUE]

\* HSET of a mapping: creates the hash when the key is absent, sets only the
\* given fields, and leaves the key's expiry as it is (none on a new key).
\* A field that is not given is passed as "none" (status, error) or -1 (progress).
HSet(rec, status, progress, error) ==
    [exists   |-> TRUE,
     status   |-> IF status # "none" THEN status ELSE rec.status,
     progress |-> IF progress # -1 THEN progress ELSE rec.progress,
     error    |-> IF error # "none" THEN error ELSE rec.error,
     config   |-> rec.config,
     cfgIteration |-> rec.cfgIteration,
     ttl      |-> rec.ttl]

\* update_job: a bare HSET of the fields that were given.
UpdateJobRec(rec, status, progress) == HSet(rec, status, progress, "none")

\* complete_job's HSET.
CompleteJobRec(rec) == HSet(rec, "completed", 100, "none")

\* Mutant of FailJobRec: the error text is not written.
FailJobRecNoError(rec, error) == HSet(rec, "failed", -1, "none")

\* fail_job's HSET.
FailJobRec(rec, error) == HSet(rec, "failed", -1, error)

\* Mutant of AtCapacity: the test is off by one.
AtCapacityOffByOne(n) == n > MAX_CONCURRENT_JOBS

\* create_job's admission test on the SCARD it has read.
AtCapacity(n) == n >= MAX_CONCURRENT_JOBS

\* uuid4: an id no job has had before.
FreeIds(limit) == {j \in 1..limit : pc[j] = "unused"}
NewJobId(limit) == CHOOSE j \in FreeIds(limit) : \A k \in FreeIds(limit) : j <= k

(***************************************************************************)
(* Initial state: an empty store, no task, idle request handlers.          *)
(***************************************************************************)

NoLoc == [src |-> 0, iteration |-> 0, exc |-> "none", last_progress |-> 5]

NoEnc == [alive |-> FALSE, processed |-> 0, progress_queue |-> <<>>, out |-> "none"]

Idle == [pc |-> "idle", arg |-> 0]

Init ==
    /\ jobs = [j \in Ids |-> NoJob]
    /\ results = [j \in Ids |-> NoResult]
    /\ texts = [j \in Ids |-> FALSE]
    /\ vectors = [j \in Ids |-> FALSE]
    /\ active = {}
    /\ pc = [j \in Ids |-> "unused"]
    /\ loc = [j \in Ids |-> NoLoc]
    /\ enc = [j \in Ids |-> NoEnc]
    /\ client = [c \in Clients |-> Idle]
    /\ last = [c \in Clients |-> [op |-> "none", res |-> "none"]]
    /\ deleted = {}
    /\ overdue = {}

(***************************************************************************)
(* Request handlers: create_job, submit_job, submit_recluster, delete_job  *)
(***************************************************************************)

InCreate == {d \in Clients : client[d].pc \in {"checked", "recl_texts"}}

\* A new call is started only while an id is left for it (the bound on ids).
IdLeft(limit) == Cardinality(FreeIds(limit)) > Cardinality(InCreate)

Returned(c, op, res) == last' = [last EXCEPT ![c] = [op |-> op, res |-> res]]

\* create_job up to its first await: SCARD of the active set, then the test.
\* Raises RuntimeError at capacity, else goes on to build the job.
CreateJobCheck(c, src, iteration) ==
    IF AtCapacity(Cardinality(active))
    THEN /\ client' = [client EXCEPT ![c] = Idle]
         /\ Returned(c, "create", "capacity")
    ELSE /\ client' = [client EXCEPT ![c] =
                [pc |-> "checked", arg |-> src, iteration |-> iteration]]
         /\ UNCHANGED last

\* POST /cluster with the given iteration: the handler puts it into the
\* config, submit_job calls create_job from the request's own texts.
SubmitIteration(c, limit, iteration) ==
    /\ client[c].pc = "idle"
    /\ IdLeft(limit)
    /\ CreateJobCheck(c, 0, iteration)
    /\ UNCHANGED <<store, pc, loc, enc, deleted, overdue>>

\* POST /cluster as most callers send it: iteration has its default, 0.
SubmitJob(c, limit) == SubmitIteration(c, limit, 0)

\* Mutant of SubmitRecluster: the derived job's texts are written before the
\* source's texts are looked up.
SubmitReclusterWritesFirst(c, src, limit) ==
    /\ client[c].pc = "idle"
    /\ IdLeft(limit)
    /\ texts' = [texts EXCEPT ![NewJobId(limit)] = TRUE]
    /\ IF texts[src]
       THEN /\ client' = [client EXCEPT ![c] = [pc |-> "recl_texts", arg |-> src]]
            /\ UNCHANGED last
       ELSE /\ Returned(c, "recluster", "notfound")
            /\ UNCHANGED client
    /\ UNCHANGED <<jobs, results, vectors, active, pc, loc, enc, deleted, overdue>>

\* submit_recluster up to its first await: the texts of the source job.
SubmitRecluster(c, src, limit) ==
    /\ client[c].pc = "idle"
    /\ IdLeft(limit)
    /\ IF texts[src]
       THEN /\ client' = [client EXCEPT ![c] = [pc |-> "recl_texts", arg |-> src]]
            /\ UNCHANGED last
       ELSE /\ Returned(c, "recluster", "notfound")
            /\ UNCHANGED client
    /\ UNCHANGED <<store, pc, loc, enc, deleted, overdue>>

\* submit_recluster, second step: create_job with cachedJobId = the source;
\* the config of a recluster request has no iteration.
ReclusterCreate(c) ==
    /\ client[c].pc = "recl_texts"
    /\ CreateJobCheck(c, client[c].arg, -1)
    /\ UNCHANGED <<store, pc, loc, enc, deleted, overdue>>

\* create_job, second step: the pipeline that writes the job hash, the texts
\* and the active-set entry; back in submit_job / submit_recluster the
\* background task is created before the handler returns.
CreateJobAdd(c, limit) ==
    /\ client[c].pc = "checked"
    /\ FreeIds(limit) # {}
    /\ LET j == NewJobId(limit) IN
        /\ jobs' = [jobs EXCEPT ![j] = NewJob(client[c].arg, client[c].iteration)]
        /\ texts' = [texts EXCEPT ![j] = TRUE]
        /\ active' = active \cup {j}
        /\ pc' = [pc EXCEPT ![j] = "start"]
        /\ Returned(c, "create", "ok")
    /\ client' = [client EXCEPT ![c] = Idle]
    /\ UNCHANGED <<results, vectors, loc, enc, deleted, overdue>>

\* delete_job up to its first await: EXISTS of the job hash.
DeleteJobCheck(c, j) ==
    /\ client[c].pc = "idle"
    /\ pc[j] # "unused"
    /\ IF jobs[j].exists
       THEN /\ client' = [client EXCEPT ![c] = [pc |-> "del_checked", arg |-> j]]
            /\ UNCHANGED last
       ELSE /\ Returned(c, "delete", "false")
            /\ UNCHANGED client
    /\ UNCHANGED <<store, pc, loc, enc, deleted, overdue>>

\* Mutant of DeleteJobExec: the DEL of the cached vectors is left out.
DeleteJobExecKeepsVectors(c) ==
    /\ client[c].pc = "del_checked"
    /\ LET j == client[c].arg IN
        /\ jobs' = [jobs EXCEPT ![j] = NoJob]
        /\ results' = [results EXCEPT ![j] = NoResult]
        /\ texts' = [texts EXCEPT ![j] = FALSE]
        /\ active' = active \ {j}
        /\ deleted' = deleted \cup {j}
        /\ Returned(c, "delete", "true")
    /\ client' = [client EXCEPT ![c] = Idle]
    /\ UNCHANGED <<vectors, pc, loc, enc, overdue>>

\* delete_job, second step: the pipeline that deletes the four keys and the
\* active-set entry; returns True.
DeleteJobExec(c) ==
    /\ client[c].pc = "del_checked"
    /\ LET j == client[c].arg IN
        /\ jobs' = [jobs EXCEPT ![j] = NoJob]
        /\ results' = [results EXCEPT ![j] = NoResult]
        /\ texts' = [texts EXCEPT ![j] = FALSE]
        /\ vectors' = [vectors EXCEPT ![j] = FALSE]
        /\ active' = active \ {j}
        /\ deleted' = deleted \cup {j}
        /\ Returned(c, "delete", "true")
    /\ client' = [client EXCEPT ![c] = Idle]
    /\ UNCHANGED <<pc, loc, enc, overdue>>

(***************************************************************************)
(* The background task _process_job, one action per await                  *)
(***************************************************************************)

Goto(j, p) == pc' = [pc EXCEPT ![j] = p]

\* The coroutine returns: its locals are gone.
Return(j) ==
    /\ pc' = [pc EXCEPT ![j] = "done"]
    /\ loc' = [loc EXCEPT ![j] = NoLoc]

\* An exception inside the try block: control moves to the except clause.
Raise(j, what) ==
    /\ Goto(j, "except")
    /\ loc' = [loc EXCEPT ![j].exc = what]

\* update_job(job_id, status, progress) as called by the task.
UpdateJob(j, status, progress) ==
    jobs' = [jobs EXCEPT ![j] = UpdateJobRec(jobs[j], status, progress)]

\* fail_job: one pipeline, the HSET and the SREM.
FailJob(j, error) ==
    /\ jobs' = [jobs EXCEPT ![j] = FailJobRec(jobs[j], error)]
    /\ active' = active \ {j}

\* The fields of the hash create_job writes, as get_job hands them to the
\* task.
JobInfoFields == {"jobId", "status", "progress", "currentStep", "createdAt",
                  "updatedAt", "config", "textCount", "error"}

\* iteration = int(job_info.get("iteration", 0)): the field of the hash, not
\* the entry of its config.
JobIteration(rec) ==
    IF "iteration" \in JobInfoFields THEN rec.cfgIteration ELSE 0

\* seed = 42 + iteration
Seed(iteration) == 42 + iteration

\* get_job; the task returns at once when the hash is gone.
Start(j) ==
    /\ pc[j] = "start"
    /\ IF jobs[j].exists
       THEN /\ Goto(j, "get_texts")
            /\ loc' = [loc EXCEPT ![j].src = jobs[j].config,
                                  ![j].iteration = JobIteration(jobs[j])]
       ELSE Return(j)
    /\ UNCHANGED <<store, enc, client, last, deleted, overdue>>

\* get_texts
GetTexts(j) ==
    /\ pc[j] = "get_texts"
    /\ Goto(j, IF texts[j] THEN "set_embedding" ELSE "fail_notexts")
    /\ UNCHANGED <<store, loc, enc, client, last, deleted, overdue>>

\* fail_job(job_id, "Teksty nie znalezione"); return
FailNoTexts(j) ==
    /\ pc[j] = "fail_notexts"
    /\ FailJob(j, "notexts")
    /\ Return(j)
    /\ UNCHANGED <<results, texts, vectors, enc, client, last, deleted, overdue>>

\* _encode_with_progress up to its first await: the encode thread is started.
StartEncode(j) ==
    enc' = [enc EXCEPT ![j] = [alive |-> TRUE, processed |-> 0,
                               progress_queue |-> <<>>, out |-> "none"]]

\* Step 1: update_job(status="embedding", progress=5), then either the cache
\* branch or the encoding branch.
SetEmbedding(j) ==
    /\ pc[j] = "set_embedding"
    /\ UpdateJob(j, "embedding", 5)
    /\ IF loc[j].src # 0
       THEN Goto(j, "load_cache") /\ UNCHANGED enc
       ELSE Goto(j, "encoding") /\ StartEncode(j)
    /\ UNCHANGED <<results, texts, vectors, active, loc, client, last, deleted, overdue>>

\* Mutant of LoadCache: the cached vectors are never found.
LoadCacheAlwaysMisses(j) ==
    /\ pc[j] = "load_cache"
    /\ Goto(j, "cache_miss")
    /\ UNCHANGED <<store, loc, enc, client, last, deleted, overdue>>

\* get_cached_embeddings(cached_job_id)
LoadCache(j) ==
    /\ pc[j] = "load_cache"
    /\ Goto(j, IF vectors[loc[j].src] THEN "cache_vectors" ELSE "cache_miss")
    /\ UNCHANGED <<store, loc, enc, client, last, deleted, overdue>>

\* Mutant of CacheMiss: the missing cache entry is raised as an error.
CacheMissRaises(j) ==
    /\ pc[j] = "cache_miss"
    /\ Raise(j, "cache")
    /\ UNCHANGED <<store, enc, client, last, deleted, overdue>>

\* Cache miss: update_job(current_step=...), then encode.
CacheMiss(j) ==
    /\ pc[j] = "cache_miss"
    /\ UpdateJob(j, "none", -1)
    /\ Goto(j, "encoding")
    /\ StartEncode(j)
    /\ UNCHANGED <<results, texts, vectors, active, loc, client, last, deleted, overdue>>

\* Mutant of EncodeProgress: the share of processed items is not taken.
EncodeProgressUnscaled(processed, total) ==
    IF total > 0 THEN 5 + (30 * processed) ELSE 5

\* progress = 5 + int(30 * processed / total) if total > 0 else 5
EncodeProgress(processed, total) ==
    IF total > 0 THEN 5 + ((30 * processed) \div total) ELSE 5

\* The encode thread finishes a batch and calls progress_callback.
EncoderBatch(j) ==
    /\ enc[j].alive
    /\ enc[j].processed < EncBatches
    /\ enc' = [enc EXCEPT ![j].processed = @ + 1,
                          ![j].progress_queue = Append(@, enc[j].processed + 1)]
    /\ UNCHANGED <<store, pc, loc, client, last, deleted, overdue>>

\* The encode thread returns the matrix: result_queue.put(result). With
\* several encoder models loaded, encode() passes no callback on and the
\* thread returns without having reported a batch.
EncoderReturn(j) ==
    /\ enc[j].alive
    /\ enc[j].processed \in {0, EncBatches}
    /\ enc' = [enc EXCEPT ![j].alive = FALSE, ![j].out = "ok"]
    /\ UNCHANGED <<store, pc, loc, client, last, deleted, overdue>>

\* The Encoder raises: error_queue.put(e).
EncoderRaise(j) ==
    /\ enc[j].alive
    /\ enc' = [enc EXCEPT ![j].alive = FALSE, ![j].out = "err"]
    /\ UNCHANGED <<store, pc, loc, client, last, deleted, overdue>>

\* The monitor loop takes one item off progress_queue and, when the progress
\* changed, awaits update_job(progress=...).
PollProgress(j) ==
    /\ pc[j] = "encoding"
    /\ enc[j].progress_queue # <<>>
    /\ LET progress == EncodeProgress(Head(enc[j].progress_queue), EncBatches) IN
        IF progress # loc[j].last_progress
        THEN /\ UpdateJob(j, "none", progress)
             /\ loc' = [loc EXCEPT ![j].last_progress = progress]
        ELSE UNCHANGED <<jobs, loc>>
    /\ enc' = [enc EXCEPT ![j].progress_queue = Tail(@)]
    /\ UNCHANGED <<results, texts, vectors, active, pc, client, last, deleted, overdue>>

\* cache_embeddings(job_id, embeddings): SET and EXPIRE in one pipeline.
CacheEmbeddings(j) == vectors' = [vectors EXCEPT ![j] = TRUE]

\* The monitor loop finds the thread dead: it re-raises the thread's error,
\* or returns its result, which the task stores with cache_embeddings.
PollDone(j) ==
    /\ pc[j] = "encoding"
    /\ ~enc[j].alive
    /\ IF enc[j].out = "err"
       THEN Raise(j, "encoder") /\ UNCHANGED vectors
       ELSE Goto(j, "p35") /\ CacheEmbeddings(j) /\ UNCHANGED loc
    /\ enc' = [enc EXCEPT ![j] = NoEnc]
    /\ UNCHANGED <<jobs, results, texts, active, client, last, deleted, overdue>>

\* Mutant of CopyCachedEmbeddings: the source's vectors are used without
\* being stored for this job.
CopyCachedEmbeddingsSkipsStore(j) ==
    /\ pc[j] = "cache_vectors"
    /\ Goto(j, "p35")
    /\ UNCHANGED <<store, loc, enc, client, last, deleted, overdue>>

\* Cache hit: the source job's vectors are copied to this job.
CopyCachedEmbeddings(j) ==
    /\ pc[j] = "cache_vectors"
    /\ CacheEmbeddings(j)
    /\ Goto(j, "p35")
    /\ UNCHANGED <<jobs, results, texts, active, loc, enc, client, last, deleted, overdue>>

\* A bare progress or status update between two stages.
StageUpdate(j, at, status, progress, next) ==
    /\ pc[j] = at
    /\ UpdateJob(j, status, progress)
    /\ Goto(j, next)
    /\ UNCHANGED <<results, texts, vectors, active, loc, enc, client, last, deleted, overdue>>

\* A stage computed in worker threads (it touches no shared state), followed
\* by the update_job that reports the next stage; the stage may raise.
StageCompute(j, at, ok, status, progress, next) ==
    /\ pc[j] = at
    /\ IF ok
       THEN UpdateJob(j, status, progress) /\ Goto(j, next) /\ UNCHANGED loc
       ELSE Raise(j, "analyzer") /\ UNCHANGED jobs
    /\ UNCHANGED <<results, texts, vectors, active, enc, client, last, deleted, overdue>>

\* update_job(progress=35)
Progress35(j) == StageUpdate(j, "p35", "none", 35, "set_reducing")

\* Step 2: update_job(status="reducing", progress=40)
SetReducing(j) == StageUpdate(j, "set_reducing", "reducing", 40, "clustering")

\* fit_bertopic and reduce_to_2d, then update_job(progress=60)
Cluster(j, ok) == StageCompute(j, "clustering", ok, "none", 60, "p70")

\* Step 3: update_job(progress=70)
Progress70(j) == StageUpdate(j, "p70", "none", 70, "scoring")

\* compute_coherence, build_topics, build_documents, then
\* Step 5: update_job(status="labeling", progress=80)
Score(j, ok) == StageCompute(j, "scoring", ok, "labeling", 80, "labeling")

\* build_topics gives the odd topics keywords and the even ones none.
HasKeywords(t) == t % 2 = 1

\* label_cluster: the Labeler's answer, or in the except clause the fallback
\* label: the first keywords, or "Klaster {id}" without keywords.
LabelCluster(t, llmFails) ==
    IF ~llmFails THEN "llm"
    ELSE IF HasKeywords(t) THEN "keywords" ELSE "klaster"

\* label_all_clusters: gather(return_exceptions=True) over label_cluster; a
\* call that did raise would get the label "Klaster {id}".
LabelAllClusters(failing) ==
    [t \in Topics |->
        LET result == LabelCluster(t, t \in failing) IN
        IF result = "raised" THEN "klaster" ELSE result]

\* Mutant of RefinementSuggestions: the Labeler's exception is not caught.
RefinementSuggestionsUncaught(llmFails) == IF llmFails THEN "raised" ELSE "llm"

\* generate_refinement_suggestions: the Labeler's suggestions, or [] from
\* the except clause around the Labeler call.
RefinementSuggestions(llmFails) == IF llmFails THEN "empty" ELSE "llm"

\* Mutant of CompleteJob: the SREM is left to a later call.
CompleteJobKeepsSlot(j, result) ==
    /\ jobs' = [jobs EXCEPT ![j] = CompleteJobRec(jobs[j])]
    /\ results' = [results EXCEPT ![j] = result]
    /\ active' = active

\* complete_job: one pipeline, the HSET, the result's SET and EXPIRE, the SREM.
CompleteJob(j, result) ==
    /\ jobs' = [jobs EXCEPT ![j] = CompleteJobRec(jobs[j])]
    /\ results' = [results EXCEPT ![j] = result]
    /\ active' = active \ {j}

\* The result assembled by _process_job. labelFailed and suggestFailed are
\* not stored by the code: they record which Labeler calls of the run failed.
BuildResult(j, failing, suggestFails) ==
    [exists |-> TRUE, jobId |-> j,
     meta |-> [iteration |-> loc[j].iteration, usedCachedEmbeddings |-> loc[j].src # 0],
     labels |-> LabelAllClusters(failing),
     llmSuggestions |-> RefinementSuggestions(suggestFails),
     labelFailed |-> failing, suggestFailed |-> suggestFails]

\* Mutant of Finalize: a statement after complete_job raises inside the try
\* block, so the except clause runs on a completed job.
FinalizeThenRaise(j, failing, suggestFails) ==
    /\ pc[j] = "labeling"
    /\ CompleteJob(j, BuildResult(j, failing, suggestFails))
    /\ Raise(j, "after_complete")
    /\ UNCHANGED <<texts, vectors, enc, client, last, deleted, overdue>>

\* label_all_clusters and generate_refinement_suggestions (the Labeler fails
\* for the topics in failing, and for the suggestions when suggestFails),
\* then the result is assembled and complete_job is called. An exception
\* that leaves either call is caught by the task's except clause.
Finalize(j, failing, suggestFails) ==
    /\ pc[j] = "labeling"
    /\ LET result == BuildResult(j, failing, suggestFails) IN
        IF \/ \E t \in Topics : result.labels[t] = "raised"
           \/ result.llmSuggestions = "raised"
        THEN Raise(j, "labeler") /\ UNCHANGED <<jobs, results, active>>
        ELSE CompleteJob(j, result) /\ Return(j)
    /\ UNCHANGED <<texts, vectors, enc, client, last, deleted, overdue>>

\* except Exception as e: fail_job(job_id, str(e))
Except(j) ==
    /\ pc[j] = "except"
    /\ FailJob(j, loc[j].exc)
    /\ Return(j)
    /\ UNCHANGED <<results, texts, vectors, enc, client, last, deleted, overdue>>

\* Every step of the background task of job j. The encode thread's steps are
\* the Encoder's, not the task's.
TaskStep(j) ==
    \/ Start(j) \/ GetTexts(j) \/ FailNoTexts(j) \/ SetEmbedding(j)
    \/ LoadCache(j) \/ CacheMiss(j) \/ CopyCachedEmbeddings(j)
    \/ PollProgress(j) \/ PollDone(j)
    \/ Progress35(j) \/ SetReducing(j)
    \/ (\E ok \in BOOLEAN : Cluster(j, ok))
    \/ Progress70(j)
    \/ (\E ok \in BOOLEAN : Score(j, ok))
    \/ (\E failing \in SUBSET Topics, suggestFails \in BOOLEAN :
            Finalize(j, failing, suggestFails))
    \/ Except(j)

EncoderStep(j) == EncoderBatch(j) \/ EncoderReturn(j) \/ EncoderRaise(j)

ClientStep(c, limit) ==
    \/ SubmitJob(c, limit)
    \/ (\E src \in 1..limit : SubmitRecluster(c, src, limit))
    \/ ReclusterCreate(c)
    \/ CreateJobAdd(c, limit)
    \/ (\E j \in 1..limit : DeleteJobCheck(c, j))
    \/ DeleteJobExec(c)

Next ==
    \/ \E c \in 1..NumClients : ClientStep(c, MaxJobs)
    \/ \E j \in Ids : TaskStep(j)
    \/ \E j \in Ids : EncoderStep(j)

Spec == Init /\ [][Next]_vars

(***************************************************************************)
(* A store that may be unreachable: any store call of a task may raise     *)
(* (redis.ConnectionError) instead of taking effect. The handlers are      *)
(* those of Spec; the Encoder, the Analyzer and the Labeler do not fail,   *)
(* and the Encoder reports no progress.                                    *)
(***************************************************************************)

StoreCallPcs == {"start", "get_texts", "fail_notexts", "set_embedding", "load_cache",
                 "cache_miss", "cache_vectors", "p35", "set_reducing", "clustering",
                 "p70", "scoring", "labeling"}

\* The store call the task is about to make raises. Inside the try block the
\* except clause takes over; the fail_job of the except clause itself is not
\* guarded, and its exception ends the task.
StoreError(j) ==
    /\ \/ pc[j] \in StoreCallPcs /\ Raise(j, "store")
       \/ pc[j] = "except" /\ Return(j)
    /\ UNCHANGED <<store, enc, client, last, deleted, overdue>>

FaultyTaskStep(j) ==
    \/ Start(j) \/ GetTexts(j) \/ FailNoTexts(j) \/ SetEmbedding(j)
    \/ LoadCache(j) \/ CacheMiss(j) \/ CopyCachedEmbeddings(j)
    \/ PollDone(j)
    \/ Progress35(j) \/ SetReducing(j)
    \/ Cluster(j, TRUE)
    \/ Progress70(j)
    \/ Score(j, TRUE)
    \/ Finalize(j, {}, FALSE)
    \/ Except(j)
    \/ StoreError(j)

NextFaulty ==
    \/ \E c \in 1..NumClients : ClientStep(c, MaxJobs)
    \/ \E j \in Ids : FaultyTaskStep(j)
    \/ \E j \in Ids : EncoderReturn(j)

SpecFaulty == Init /\ [][NextFaulty]_vars

(***************************************************************************)
(* A burst of submissions: NumBurstClients handlers submit up to           *)
(* MaxBurstJobs jobs and nothing else; the Encoder reports no progress and *)
(* the Labeler answers every call.                                         *)
(***************************************************************************)

BurstTaskStep(j) ==
    \/ Start(j) \/ GetTexts(j) \/ SetEmbedding(j)
    \/ PollDone(j)
    \/ Progress35(j) \/ SetReducing(j)
    \/ (\E ok \in BOOLEAN : Cluster(j, ok))
    \/ Progress70(j)
    \/ Score(j, TRUE)
    \/ Finalize(j, {}, FALSE)
    \/ Except(j)

NextAdmission ==
    \/ \E c \in 1..NumBurstClients : SubmitJob(c, MaxBurstJobs) \/ CreateJobAdd(c, MaxBurstJobs)
    \/ \E j \in Ids : BurstTaskStep(j)
    \/ \E j \in Ids : EncoderReturn(j) \/ EncoderRaise(j)

SpecAdmission == Init /\ [][NextAdmission]_vars

\* Largest iteration counter a submission carries.
MaxIteration == 1

\* Submissions with an iteration counter: one handler submits jobs with the
\* counters 0..MaxIteration while the tasks run.
NextIteration ==
    \/ \E c \in 1..NumClients, iteration \in 0..MaxIteration :
            SubmitIteration(c, MaxJobs, iteration)
    \/ \E c \in 1..NumClients : CreateJobAdd(c, MaxJobs)
    \/ \E j \in Ids : BurstTaskStep(j)
    \/ \E j \in Ids : EncoderReturn(j) \/ EncoderRaise(j)

SpecIteration == Init /\ [][NextIteration]_vars

\* POST /cluster/recluster up to the first await of submit_recluster:
\* without cached vectors of the source the handler answers 404
\* EMBEDDINGS_NOT_CACHED, with them it calls submit_recluster.
Recluster(c, src, limit) ==
    IF vectors[src]
    THEN SubmitRecluster(c, src, limit)
    ELSE /\ client[c].pc = "idle"
         /\ IdLeft(limit)
         /\ Returned(c, "recluster", "not_cached")
         /\ UNCHANGED <<store, pc, loc, enc, client, deleted, overdue>>

\* Admission on both submission paths: one handler submits new and derived
\* jobs while the tasks run.
NextSubmission ==
    \/ \E c \in 1..NumClients :
            \/ SubmitJob(c, MaxBurstJobs)
            \/ (\E src \in 1..MaxBurstJobs : Recluster(c, src, MaxBurstJobs))
            \/ ReclusterCreate(c)
            \/ CreateJobAdd(c, MaxBurstJobs)
    \/ \E j \in Ids : BurstTaskStep(j) \/ LoadCache(j) \/ CopyCachedEmbeddings(j)
    \/ \E j \in Ids : EncoderReturn(j) \/ EncoderRaise(j)

SpecSubmission == Init /\ [][NextSubmission]_vars

(***************************************************************************)
(* The wall clock: one handler submits jobs, and the run of a job may last *)
(* longer than PIPELINE_TIMEOUT_SECONDS (config.py:90, which no code       *)
(* reads). The event loop runs every task that can take a step; nothing    *)
(* obliges the Encoder to return.                                          *)
(***************************************************************************)

Running(j) == pc[j] \notin {"unused", "done"}

DeadlinePasses(j) ==
    /\ Running(j)
    /\ j \notin overdue
    /\ overdue' = overdue \cup {j}
    /\ UNCHANGED <<store, pc, loc, enc, client, last, deleted>>

NextTimeout ==
    \/ \E c \in 1..NumClients : SubmitJob(c, MaxJobs) \/ CreateJobAdd(c, MaxJobs)
    \/ \E j \in Ids : BurstTaskStep(j)
    \/ \E j \in Ids : EncoderReturn(j) \/ EncoderRaise(j)
    \/ \E j \in Ids : DeadlinePasses(j)

SpecTimeout ==
    Init /\ [][NextTimeout]_vars /\ \A j \in Ids : WF_vars(BurstTaskStep(j))

(***************************************************************************)
(* Derived jobs and key expiry: one handler submits, reclusters and        *)
(* deletes jobs, and the keys of a job whose run has ended expire. The     *)
(* hash and the texts are written together with JOB_TTL (config.py:59),    *)
(* the result with RESULT_TTL (config.py:60, twice as long) and the        *)
(* vectors with EMBEDDING_CACHE_TTL (config.py:58, the longest), so they   *)
(* expire in that order. A run is taken to be shorter than JOB_TTL.        *)
(***************************************************************************)

\* The job hash (when it carries an expiry) and the texts reach JOB_TTL.
ExpireJob(j) ==
    /\ pc[j] = "done"
    /\ texts[j] \/ (jobs[j].exists /\ jobs[j].ttl)
    /\ jobs' = [jobs EXCEPT ![j] = IF @.ttl THEN NoJob ELSE @]
    /\ texts' = [texts EXCEPT ![j] = FALSE]
    /\ UNCHANGED <<results, vectors, active, pc, loc, enc, client, last, deleted, overdue>>

\* The stored result reaches RESULT_TTL.
ExpireResult(j) ==
    /\ pc[j] = "done"
    /\ results[j].exists /\ ~texts[j]
    /\ results' = [results EXCEPT ![j] = NoResult]
    /\ UNCHANGED <<jobs, texts, vectors, active, pc, loc, enc, client, last, deleted, overdue>>

\* The cached vectors reach EMBEDDING_CACHE_TTL.
ExpireEmbeddings(j) ==
    /\ pc[j] = "done"
    /\ vectors[j] /\ ~texts[j] /\ ~results[j].exists
    /\ vectors' = [vectors EXCEPT ![j] = FALSE]
    /\ UNCHANGED <<jobs, results, texts, active, pc, loc, enc, client, last, deleted, overdue>>

\* The task of a job, derived or not; the Encoder reports no progress and
\* the Labeler answers every call.
DerivedTaskStep(j) ==
    \/ Start(j) \/ GetTexts(j) \/ FailNoTexts(j) \/ SetEmbedding(j)
    \/ LoadCache(j) \/ CacheMiss(j) \/ CopyCachedEmbeddings(j)
    \/ PollDone(j)
    \/ Progress35(j) \/ SetReducing(j)
    \/ (\E ok \in BOOLEAN : Cluster(j, ok))
    \/ Progress70(j)
    \/ Score(j, TRUE)
    \/ Finalize(j, {}, FALSE)
    \/ Except(j)

NextDerived ==
    \/ \E c \in 1..NumClients : ClientStep(c, MaxJobs)
    \/ \E j \in Ids : DerivedTaskStep(j)
    \/ \E j \in Ids : EncoderReturn(j) \/ EncoderRaise(j)
    \/ \E j \in Ids : ExpireJob(j) \/ ExpireResult(j) \/ ExpireEmbeddings(j)

SpecDerived == Init /\ [][NextDerived]_vars

(***************************************************************************)
(* The clustering result: documents, topics and the derived counts, as     *)
(* assembled by _process_job and rewritten by merge_clusters and           *)
(* reclassify_documents. Of a document only its clusterId is kept (and its *)
(* id where the order of the documents is followed), a topic is            *)
(* [id, documentCount, label]; both lists are sequences in list order.     *)
(***************************************************************************)

\* Documents of one job.
NumDocs == 6
\* Largest cluster id a result may hold (ids grow with every reclassify).
MaxClusterId == 1
\* Largest num_clusters a reclassify request asks for.
MaxNumClusters == 2

\* The noise sentinel.
Noise == -1

ClusterIds == Noise..MaxClusterId

Min(S) == CHOOSE x \in S : \A y \in S : x <= y
Max(S) == CHOOSE x \in S : \A y \in S : x >= y

\* sorted(set(...))
RECURSIVE Sorted(_)
Sorted(S) == IF S = {} THEN <<>> ELSE <<Min(S)>> \o Sorted(S \ {Min(S)})

\* sorted(topics, key=lambda t: t["id"]): a stable sort.
RECURSIVE SortedById(_)
SortedById(ts) ==
    IF ts = <<>> THEN <<>>
    ELSE LET h == Head(ts)
             rest == SortedById(Tail(ts))
         IN SelectSeq(rest, LAMBDA t : t.id < h.id) \o <<h>> \o
            SelectSeq(rest, LAMBDA t : t.id >= h.id)

\* [d for d in documents if d["clusterId"] in ids]
DocsIn(documents, ids) == SelectSeq(documents, LAMBDA d : d.clusterId \in ids)

\* [t for t in topics if t["id"] in ids]
TopicsIn(topics, ids) == SelectSeq(topics, LAMBDA t : t.id \in ids)

Range(s) == {s[i] : i \in DOMAIN s}

\* build_documents: one document per text, clusterId = int(labels[i]).
BuildDocuments(labels) ==
    [i \in 1..Len(labels) |-> [clusterId |-> labels[i]]]

\* build_documents gives the i-th document (counted from 0) the id
\* "doc-{i}", kept as i.
WithIds(documents) ==
    [i \in DOMAIN documents |-> [id |-> i - 1] @@ documents[i]]

\* build_topics: one topic per label other than -1, documentCount = mask.sum();
\* label_all_clusters then gives every topic its label.
BuildTopics(labels) ==
    LET unique == Sorted(Range(labels) \ {Noise})
    IN [n \in 1..Len(unique) |->
            [id |-> unique[n],
             documentCount |-> Cardinality({i \in DOMAIN labels : labels[i] = unique[n]}),
             label |-> LabelCluster(unique[n], FALSE)]]

\* The noise topic appended by _process_job when noise_count > 0.
WithNoiseTopic(topics, documents, noise_count) ==
    IF noise_count > 0
    THEN SortedById(Append(topics,
            [id |-> Noise, documentCount |-> Len(DocsIn(documents, {Noise})),
             label |-> "Szum"]))
    ELSE topics

\* The documents, topics and counts of the result _process_job assembles
\* from the Analyzer's labels.
ClusteringResult(labels) ==
    LET noise_count == Cardinality({i \in DOMAIN labels : labels[i] = Noise})
        documents == BuildDocuments(labels)
    IN [documents |-> documents,
        topics |-> WithNoiseTopic(BuildTopics(labels), documents, noise_count),
        totalDocuments |-> Len(labels),
        noise |-> noise_count]

\* Mutant of MergeClusters: only the topic of the surviving id is replaced.
MergeClustersKeepsTopics(cluster_ids, new_label, documents, topics) ==
    LET target_id == Min(Range(cluster_ids))
        merge_set == Range(cluster_ids)
        moved == [i \in DOMAIN documents |->
                    IF documents[i].clusterId \in merge_set
                    THEN [documents[i] EXCEPT !.clusterId = target_id]
                    ELSE documents[i]]
        remaining == SelectSeq(topics, LAMBDA t : t.id # target_id)
        merged_docs == DocsIn(moved, {target_id})
        new_topic == [id |-> target_id, documentCount |-> Len(merged_docs),
                      label |-> new_label]
    IN [documents |-> moved,
        topics |-> SortedById(Append(remaining, new_topic)),
        totalDocuments |-> Len(moved),
        noise |-> Len(DocsIn(moved, {Noise}))]

\* merge_clusters: the documents of the named clusters move to the smallest
\* named id, the named topics are replaced by one topic with that id.
MergeClusters(cluster_ids, new_label, documents, topics) ==
    LET target_id == Min(Range(cluster_ids))
        merge_set == Range(cluster_ids)
        moved == [i \in DOMAIN documents |->
                    IF documents[i].clusterId \in merge_set
                    THEN [documents[i] EXCEPT !.clusterId = target_id]
                    ELSE documents[i]]
        remaining == SelectSeq(topics, LAMBDA t : t.id \notin merge_set)
        merged_docs == DocsIn(moved, {target_id})
        new_topic == [id |-> target_id, documentCount |-> Len(merged_docs),
                      label |-> new_label]
    IN [documents |-> moved,
        topics |-> SortedById(Append(remaining, new_topic)),
        totalDocuments |-> Len(moved),
        noise |-> Len(DocsIn(moved, {Noise}))]

\* new_ids = [max_id + 1 + i for i in range(num_clusters)], max_id the
\* largest topic id (0 without topics).
NewIds(topics, num_clusters) ==
    LET max_id == IF topics = <<>> THEN 0 ELSE Max({topics[n].id : n \in DOMAIN topics})
    IN [i \in 0..(num_clusters - 1) |-> max_id + 1 + i]

\* The topics reclassify_documents builds for the new ids that have
\* documents; labelled with the Labeler's answer or its fallback, or with the
\* default label.
NewTopics(new_ids, docs, labelled, llmFails) ==
    LET used == SelectSeq(Sorted(DOMAIN new_ids),
                    LAMBDA i : DocsIn(docs, {new_ids[i]}) # <<>>)
    IN [n \in 1..Len(used) |->
            [id |-> new_ids[used[n]],
             documentCount |-> Len(DocsIn(docs, {new_ids[used[n]]})),
             label |-> IF labelled THEN LabelCluster(new_ids[used[n]], llmFails)
                       ELSE "klaster"]]

\* Mutant of ReclassifyTopics: without the job's texts or vectors the default
\* topics are built.
ReclassifyTopicsDefaults(new_ids, docs, env) ==
    IF env.has_job /\ env.generate_labels /\ env.cached
    THEN NewTopics(new_ids, docs, TRUE, env.llmFails)
    ELSE NewTopics(new_ids, docs, FALSE, FALSE)

\* The "Build new topics" block of reclassify_documents; env is what the
\* call meets: has_job (a job id was passed), generate_labels, cached (the
\* job's texts and vectors are both stored), llmFails (the Labeler fails) and
\* raisedAfter (an exception leaves the labelling loop after that many
\* topics, in the turn of a later one; none when negative or when no later
\* topic is left). With a job id and generate_labels the topics
\* are labelled one by one when cached, and nothing is built when not; an
\* exception appends the default topics to those already built. Without a
\* job id or without generate_labels the default topics are built.
ReclassifyTopics(new_ids, docs, env) ==
    IF env.has_job /\ env.generate_labels
    THEN IF ~env.cached THEN <<>>
         ELSE LET appended == NewTopics(new_ids, docs, TRUE, env.llmFails)
              IN IF env.raisedAfter < 0 \/ env.raisedAfter >= Len(appended)
                 THEN appended
                 ELSE SubSeq(appended, 1, env.raisedAfter)
                      \o NewTopics(new_ids, docs, FALSE, FALSE)
    ELSE NewTopics(new_ids, docs, FALSE, FALSE)

\* Mutant of ReclassifyDocuments: noise is counted on the documents as they
\* came in.
ReclassifyDocumentsStaleNoise(from_ids, num_clusters, documents, topics, new_labels, env) ==
    LET docs_to_reclassify == DocsIn(documents, from_ids)
        other_docs == SelectSeq(documents, LAMBDA d : d.clusterId \notin from_ids)
        new_ids == NewIds(topics, num_clusters)
        reassigned == [n \in DOMAIN docs_to_reclassify |->
                        [docs_to_reclassify[n] EXCEPT !.clusterId = new_ids[new_labels[n]]]]
        remaining_topics == SelectSeq(topics, LAMBDA t : t.id \notin from_ids)
        new_topics == ReclassifyTopics(new_ids, reassigned, env)
        all_documents == other_docs \o reassigned
    IN [documents |-> all_documents,
        topics |-> SortedById(remaining_topics \o new_topics),
        totalDocuments |-> Len(all_documents),
        noise |-> Len(DocsIn(documents, {Noise}))]

\* reclassify_documents: the documents of the clusters in from_ids get the
\* new ids KMeans assigns them (new_labels, one label per such document), the
\* topics in from_ids are replaced by the new topics.
ReclassifyDocuments(from_ids, num_clusters, documents, topics, new_labels, env) ==
    LET docs_to_reclassify == DocsIn(documents, from_ids)
        other_docs == SelectSeq(documents, LAMBDA d : d.clusterId \notin from_ids)
        new_ids == NewIds(topics, num_clusters)
        reassigned == [n \in DOMAIN docs_to_reclassify |->
                        [docs_to_reclassify[n] EXCEPT !.clusterId = new_ids[new_labels[n]]]]
        remaining_topics == SelectSeq(topics, LAMBDA t : t.id \notin from_ids)
        new_topics == ReclassifyTopics(new_ids, reassigned, env)
        all_documents == other_docs \o reassigned
    IN [documents |-> all_documents,
        topics |-> SortedById(remaining_topics \o new_topics),
        totalDocuments |-> Len(all_documents),
        noise |-> Len(DocsIn(all_documents, {Noise}))]

(***************************************************************************)
(* Results: job 1 is in its labelling stage; its run stores a result, one  *)
(* caller fetches it once and from then on sends the documents and topics  *)
(* it was last handed back in merge and reclassify requests, all of them   *)
(* with the job id or all without, while the job's hash and texts may      *)
(* expire.                                                                 *)
(***************************************************************************)

\* The job whose result is edited.
EditedJob == 1

\* The labels fit_bertopic may give a document.
AnalyzerLabels == Noise..0

InitResult ==
    /\ jobs = [j \in Ids |-> IF j = EditedJob
                              THEN [NewJob(0, 0) EXCEPT !.status = "labeling", !.progress = 80]
                              ELSE NoJob]
    /\ results = [j \in Ids |-> NoResult]
    /\ texts = [j \in Ids |-> j = EditedJob]
    /\ vectors = [j \in Ids |-> j = EditedJob]
    /\ active = {EditedJob}
    /\ pc = [j \in Ids |-> IF j = EditedJob THEN "labeling" ELSE "unused"]
    /\ loc = [j \in Ids |-> NoLoc]
    /\ enc = [j \in Ids |-> NoEnc]
    /\ client = [c \in Clients |-> Idle]
    /\ last = [c \in Clients |-> [op |-> "none", res |-> "none"]]
    /\ deleted = {}
    /\ overdue = {}

\* The end of _process_job with the result in full: the Labeler answers
\* every call, the Analyzer has given the documents the labels in labels.
FinalizeResult(j, labels) ==
    /\ pc[j] = "labeling"
    /\ CompleteJob(j, BuildResult(j, {}, FALSE) @@ ClusteringResult(labels))
    /\ Return(j)
    /\ UNCHANGED <<texts, vectors, enc, client, last, deleted, overdue>>

\* GET /cluster/job/{id}: the result of a completed job is handed to the
\* caller, who keeps its jobId for the requests that follow (keeps_id) or
\* keeps the documents and topics only.
GetJobStatus(c, j, keeps_id) ==
    /\ client[c].pc = "idle"
    /\ last[c].op = "none"
    /\ jobs[j].exists /\ jobs[j].status = "completed" /\ results[j].exists
    /\ Returned(c, "get", IF keeps_id THEN results[j]
                          ELSE [k \in DOMAIN results[j] \ {"jobId"} |-> results[j][k]])
    /\ UNCHANGED <<store, pc, loc, enc, client, deleted, overdue>>

\* The caller holds a result it can send back: the one it was handed last,
\* which a refused or failed request and a rename leave with it.
HoldsResult(c) ==
    last[c].op \in {"get", "merge", "reclassify", "split", "merge_error",
                    "reclassify_error", "split_error", "rename", "rename_error"}

\* A request that ends in an HTTP error with the given code: the caller
\* keeps the result it holds.
Refused(c, op, code) ==
    last' = [last EXCEPT ![c] = [op |-> op, res |-> last[c].res, code |-> code]]

\* The caller sends the job id along when the result it holds names one.
HasJob(c) == "jobId" \in DOMAIN last[c].res

\* update_result, after the handler has put jobId on the result.
UpdateResult(j, result) ==
    results' = [results EXCEPT ![j] = [exists |-> TRUE, jobId |-> j] @@ result]

\* {}
EmptyDict == [k \in {} |-> 0]

\* Mutant of Preserved: the meta of the stored result is not taken over.
PreservedDropsMeta(j) == [jobId |-> j, meta |-> EmptyDict]

\* The jobId and meta a mutation with a job id puts on its result: those of
\* the stored result, or the job id and {} when none is stored.
Preserved(j) ==
    IF results[j].exists
    THEN [jobId |-> results[j].jobId,
          meta |-> IF "meta" \in DOMAIN results[j] THEN results[j].meta ELSE EmptyDict]
    ELSE [jobId |-> j, meta |-> EmptyDict]

\* What a mutation does with its result: with a job id it is stored under
\* that id and returned with jobId and meta, without one it is only returned.
StoreAndReturn(c, op, j, has_job, result) ==
    IF has_job
    THEN /\ UpdateResult(j, Preserved(j) @@ result)
         /\ Returned(c, op, [exists |-> TRUE] @@ Preserved(j) @@ result)
    ELSE /\ Returned(c, op, result)
         /\ UNCHANGED results

\* POST /cluster/merge with the documents and topics the caller holds.
MergeRequest(c, cluster_ids) ==
    /\ client[c].pc = "idle"
    /\ HoldsResult(c)
    /\ Len(cluster_ids) >= 2
    /\ StoreAndReturn(c, "merge", EditedJob, HasJob(c),
            MergeClusters(cluster_ids, "merged", last[c].res.documents, last[c].res.topics))
    /\ UNCHANGED <<jobs, texts, vectors, active, pc, loc, enc, client, deleted, overdue>>

\* POST /cluster/merge with fewer than two ids: the handler answers 400
\* INVALID_INPUT before the pipeline is called.
MergeRefused(c, cluster_ids) ==
    /\ client[c].pc = "idle"
    /\ HoldsResult(c)
    /\ Len(cluster_ids) < 2
    /\ Refused(c, "merge_error", "INVALID_INPUT")
    /\ UNCHANGED <<store, pc, loc, enc, client, deleted, overdue>>

\* POST /cluster/merge in which an exception other than ValueError leaves
\* merge_clusters (the computation or get_result raises): the handler's
\* `except Exception` answers 500 PIPELINE_ERROR.
MergeRaises(c, cluster_ids) ==
    /\ client[c].pc = "idle"
    /\ HoldsResult(c)
    /\ Len(cluster_ids) >= 2
    /\ Refused(c, "merge_error", "PIPELINE_ERROR")
    /\ UNCHANGED <<store, pc, loc, enc, client, deleted, overdue>>

\* fit_predict of KMeans(n_clusters = num_clusters) on n points: one label
\* below num_clusters per point (a cluster may stay empty when points
\* coincide).
KMeansLabels(n, num_clusters) == [1..n -> 0..(num_clusters - 1)]

\* POST /cluster/reclassify with the documents and topics the caller holds;
\* new_labels is what KMeans answers. A request for which too few documents
\* are pooled is refused and changes nothing.
ReclassifyRequest(c, from_ids, num_clusters, env) ==
    /\ client[c].pc = "idle"
    /\ HoldsResult(c)
    /\ from_ids # {}
    /\ num_clusters >= 1
    /\ env.has_job = HasJob(c)
    /\ env.cached = (texts[EditedJob] /\ vectors[EditedJob])
    /\ LET n == Len(DocsIn(last[c].res.documents, from_ids)) IN
        /\ n >= num_clusters * 3
        /\ \A i \in 0..(num_clusters - 1) :
                NewIds(last[c].res.topics, num_clusters)[i] <= MaxClusterId
        /\ \E new_labels \in KMeansLabels(n, num_clusters) :
                StoreAndReturn(c, "reclassify", EditedJob, env.has_job,
                    ReclassifyDocuments(from_ids, num_clusters, last[c].res.documents,
                                        last[c].res.topics, new_labels, env))
    /\ UNCHANGED <<jobs, texts, vectors, active, pc, loc, enc, client, deleted, overdue>>

\* Mutant of ReclassifyRefused: the documents are reassigned and the result
\* stored before the number of pooled documents is tested.
ReclassifyRefusedAfterWrite(c, from_ids, num_clusters) ==
    /\ client[c].pc = "idle"
    /\ HoldsResult(c)
    /\ LET n == Len(DocsIn(last[c].res.documents, from_ids)) IN
        /\ from_ids = {} \/ num_clusters < 1 \/ n < num_clusters * 3
        /\ Refused(c, "reclassify_error",
                IF from_ids = {} \/ num_clusters < 1 THEN "INVALID_INPUT"
                ELSE "PIPELINE_ERROR")
        /\ IF HasJob(c) /\ from_ids # {} /\ num_clusters >= 1
           THEN UpdateResult(EditedJob,
                    [documents |-> [i \in DOMAIN last[c].res.documents |->
                                        IF last[c].res.documents[i].clusterId \in from_ids
                                        THEN [last[c].res.documents[i] EXCEPT
                                                !.clusterId = NewIds(last[c].res.topics, 1)[0]]
                                        ELSE last[c].res.documents[i]],
                     topics |-> last[c].res.topics,
                     totalDocuments |-> last[c].res.totalDocuments,
                     noise |-> last[c].res.noise])
           ELSE UNCHANGED results
    /\ UNCHANGED <<jobs, texts, vectors, active, pc, loc, enc, client, deleted, overdue>>

\* POST /cluster/reclassify that is refused: without source ids or with
\* num_clusters below 1 the handler answers 400 INVALID_INPUT; with fewer
\* than 3 * num_clusters pooled documents reclassify_documents raises
\* ValueError, which the handler's `except Exception` answers with 500
\* PIPELINE_ERROR.
ReclassifyRefused(c, from_ids, num_clusters) ==
    /\ client[c].pc = "idle"
    /\ HoldsResult(c)
    /\ LET n == Len(DocsIn(last[c].res.documents, from_ids)) IN
        /\ from_ids = {} \/ num_clusters < 1 \/ n < num_clusters * 3
        /\ Refused(c, "reclassify_error",
                IF from_ids = {} \/ num_clusters < 1 THEN "INVALID_INPUT"
                ELSE "PIPELINE_ERROR")
    /\ UNCHANGED <<store, pc, loc, enc, client, deleted, overdue>>

\* POST /cluster/reclassify in which reclassify_documents raises after its
\* test of the pooled documents (KMeans, the store's reads): 500
\* PIPELINE_ERROR.
ReclassifyRaises(c, from_ids, num_clusters) ==
    /\ client[c].pc = "idle"
    /\ HoldsResult(c)
    /\ from_ids # {}
    /\ num_clusters >= 1
    /\ Len(DocsIn(last[c].res.documents, from_ids)) >= num_clusters * 3
    /\ Refused(c, "reclassify_error", "PIPELINE_ERROR")
    /\ UNCHANGED <<store, pc, loc, enc, client, deleted, overdue>>

\* The stored topics with the label of the first topic of that id replaced.
RenameFirst(topics, topic_id, new_label) ==
    LET hits == {n \in DOMAIN topics : topics[n].id = topic_id}
    IN IF hits = {} THEN topics
       ELSE [topics EXCEPT ![Min(hits)].label = new_label]

\* PATCH /cluster/rename: an empty label is answered 400 INVALID_INPUT. With
\* a job id whose result is stored, the first topic of that id (if any) gets
\* the label and the result is written back; in every other case nothing is
\* read or written. Every answer but the 400 says updated: True.
RenameTopic(c, topic_id, new_label, with_job) ==
    /\ client[c].pc = "idle"
    /\ HoldsResult(c)
    /\ with_job = HasJob(c)
    /\ IF new_label = ""
       THEN /\ Refused(c, "rename_error", "INVALID_INPUT")
            /\ UNCHANGED results
       ELSE /\ last' = [last EXCEPT ![c] =
                    [op |-> "rename", res |-> last[c].res, updated |-> TRUE]]
            /\ IF with_job /\ results[EditedJob].exists
               THEN results' = [results EXCEPT ![EditedJob].topics =
                                    RenameFirst(@, topic_id, new_label)]
               ELSE UNCHANGED results
    /\ UNCHANGED <<jobs, texts, vectors, active, pc, loc, enc, client, deleted, overdue>>

\* What a reclassify call may meet: a job id or none, the job's texts and
\* vectors stored or not, and generate_labels off, or on with the Labeler
\* answering, the Labeler failing, or an exception after the first labelled
\* topic.
ReclassifyEnvs ==
    {[has_job |-> h, generate_labels |-> m[1], cached |-> ca, llmFails |-> m[2],
      raisedAfter |-> m[3]] :
        h \in BOOLEAN, ca \in BOOLEAN,
        m \in {<<FALSE, FALSE, -1>>, <<TRUE, FALSE, -1>>, <<TRUE, TRUE, -1>>, <<TRUE, FALSE, 1>>}}

\* The labellings fit_bertopic answers with: the documents of a cluster are
\* neighbours in the input.
RECURSIVE IsSorted(_)
IsSorted(labels) ==
    Len(labels) < 2 \/ (labels[1] <= labels[2] /\ IsSorted(Tail(labels)))

AnalyzerLabellings == {labels \in [1..NumDocs -> AnalyzerLabels] : IsSorted(labels)}

NextResult ==
    \/ \E labels \in AnalyzerLabellings : FinalizeResult(EditedJob, labels)
    \/ \E c \in 1..NumClients, keeps_id \in BOOLEAN : GetJobStatus(c, EditedJob, keeps_id)
    \/ \E c \in 1..NumClients, a, b \in ClusterIds : a <= b /\ MergeRequest(c, <<a, b>>)
    \/ \E c \in 1..NumClients, from_ids \in SUBSET ClusterIds,
          num_clusters \in 1..MaxNumClusters, env \in ReclassifyEnvs :
            ReclassifyRequest(c, from_ids, num_clusters, env)
    \/ ExpireJob(EditedJob)

SpecResult == InitResult /\ [][NextResult]_vars

\* The end of _process_job as in FinalizeResult, the documents with their
\* ids.
FinalizeWithIds(j, labels) ==
    /\ pc[j] = "labeling"
    /\ CompleteJob(j, [BuildResult(j, {}, FALSE) @@ ClusteringResult(labels)
                            EXCEPT !.documents = WithIds(@)])
    /\ Return(j)
    /\ UNCHANGED <<texts, vectors, enc, client, last, deleted, overdue>>

\* The order of the documents: results whose documents carry their ids,
\* merges, and reclassify requests for one new cluster with generate_labels
\* off.
NextOrder ==
    \/ \E labels \in AnalyzerLabellings : FinalizeWithIds(EditedJob, labels)
    \/ \E c \in 1..NumClients, keeps_id \in BOOLEAN : GetJobStatus(c, EditedJob, keeps_id)
    \/ \E c \in 1..NumClients, a, b \in ClusterIds : a < b /\ MergeRequest(c, <<a, b>>)
    \/ \E c \in 1..NumClients, from_ids \in SUBSET ClusterIds,
          env \in {e \in ReclassifyEnvs : ~e.generate_labels} :
            ReclassifyRequest(c, from_ids, 1, env)

SpecOrder == InitResult /\ [][NextOrder]_vars

\* Largest num_subclusters a split request asks for.
MaxSubclusters == 2
\* Largest cluster id a split may hand out.
MaxSplitId == 2

\* The groupings of n documents into num_subclusters groups, none of them
\* empty.
Groupings(n, num_subclusters) ==
    {g \in [1..n -> 0..(num_subclusters - 1)] :
        \A k \in 0..(num_subclusters - 1) : \E i \in 1..n : g[i] = k}

\* Mutant of SplitCluster: the first group keeps the id of the cluster that
\* is split.
SplitClusterReusesId(cluster_id, num_subclusters, documents, topics, groups) ==
    LET new_ids == [i \in 0..(num_subclusters - 1) |->
                        IF i = 0 THEN cluster_id ELSE NewIds(topics, num_subclusters)[i]]
        rank(i) == Cardinality({j \in 1..i : documents[j].clusterId = cluster_id})
        moved == [i \in DOMAIN documents |->
                    IF documents[i].clusterId = cluster_id
                    THEN [documents[i] EXCEPT !.clusterId = new_ids[groups[rank(i)]]]
                    ELSE documents[i]]
        remaining == SelectSeq(topics, LAMBDA t : t.id # cluster_id)
        used == SelectSeq(Sorted(DOMAIN new_ids), LAMBDA i : DocsIn(moved, {new_ids[i]}) # <<>>)
        new_topics == [n \in 1..Len(used) |->
                        [id |-> new_ids[used[n]],
                         documentCount |-> Len(DocsIn(moved, {new_ids[used[n]]})),
                         label |-> "subgroup"]]
    IN [documents |-> moved,
        topics |-> SortedById(remaining \o new_topics),
        totalDocuments |-> Len(moved),
        noise |-> Len(DocsIn(moved, {Noise}))]

\* Split: the documents of cluster_id are partitioned into num_subclusters
\* groups (groups, one group per such document), every group gets a fresh
\* id beyond the largest topic id, the topic of cluster_id is removed and
\* one topic is created per non-empty group, labelled after the original.
SplitCluster(cluster_id, num_subclusters, documents, topics, groups) ==
    LET new_ids == NewIds(topics, num_subclusters)
        rank(i) == Cardinality({j \in 1..i : documents[j].clusterId = cluster_id})
        moved == [i \in DOMAIN documents |->
                    IF documents[i].clusterId = cluster_id
                    THEN [documents[i] EXCEPT !.clusterId = new_ids[groups[rank(i)]]]
                    ELSE documents[i]]
        remaining == SelectSeq(topics, LAMBDA t : t.id # cluster_id)
        used == SelectSeq(Sorted(DOMAIN new_ids), LAMBDA i : DocsIn(moved, {new_ids[i]}) # <<>>)
        new_topics == [n \in 1..Len(used) |->
                        [id |-> new_ids[used[n]],
                         documentCount |-> Len(DocsIn(moved, {new_ids[used[n]]})),
                         label |-> "subgroup"]]
    IN [documents |-> moved,
        topics |-> SortedById(remaining \o new_topics),
        totalDocuments |-> Len(moved),
        noise |-> Len(DocsIn(moved, {Noise}))]

\* A split request on the result the caller holds: refused as INVALID_INPUT
\* when the cluster has fewer than 3 * num_subclusters documents, else the
\* split result is stored (with a job id) and handed back.
SplitRequest(c, cluster_id, num_subclusters) ==
    /\ client[c].pc = "idle"
    /\ HoldsResult(c)
    /\ TopicsIn(last[c].res.topics, {cluster_id}) # <<>>
    /\ \A i \in 0..(num_subclusters - 1) :
            NewIds(last[c].res.topics, num_subclusters)[i] <= MaxSplitId
    /\ LET n == Len(DocsIn(last[c].res.documents, {cluster_id})) IN
        IF n < 3 * num_subclusters
        THEN /\ Refused(c, "split_error", "INVALID_INPUT")
             /\ UNCHANGED results
        ELSE \E groups \in Groupings(n, num_subclusters) :
                StoreAndReturn(c, "split", EditedJob, HasJob(c),
                    SplitCluster(cluster_id, num_subclusters, last[c].res.documents,
                                 last[c].res.topics, groups))
    /\ UNCHANGED <<jobs, texts, vectors, active, pc, loc, enc, client, deleted, overdue>>

\* Merge, rename and the reclassify requests for one new cluster with
\* generate_labels off, together with the requests that are refused or fail.
NextMutation ==
    \/ \E labels \in AnalyzerLabellings : FinalizeResult(EditedJob, labels)
    \/ \E c \in 1..NumClients, keeps_id \in BOOLEAN : GetJobStatus(c, EditedJob, keeps_id)
    \/ \E c \in 1..NumClients, a, b \in ClusterIds : a <= b /\ MergeRequest(c, <<a, b>>)
    \/ \E c \in 1..NumClients, from_ids \in SUBSET ClusterIds,
          env \in {e \in ReclassifyEnvs : ~e.generate_labels} :
            ReclassifyRequest(c, from_ids, 1, env)
    \/ \E c \in 1..NumClients, a \in ClusterIds : MergeRefused(c, <<a>>)
    \/ \E c \in 1..NumClients, a, b \in ClusterIds : a <= b /\ MergeRaises(c, <<a, b>>)
    \/ \E c \in 1..NumClients, from_ids \in SUBSET ClusterIds,
          num_clusters \in 0..MaxNumClusters : ReclassifyRefused(c, from_ids, num_clusters)
    \/ \E c \in 1..NumClients, from_ids \in SUBSET ClusterIds,
          num_clusters \in 1..MaxNumClusters : ReclassifyRaises(c, from_ids, num_clusters)
    \/ \E c \in 1..NumClients, topic_id \in ClusterIds, new_label \in {"", "renamed"},
          with_job \in BOOLEAN : RenameTopic(c, topic_id, new_label, with_job)
    \/ ExpireJob(EditedJob)

SpecMutation == InitResult /\ [][NextMutation]_vars

\* The split requests on a fetched result, and merges between them.
NextSplit ==
    \/ \E labels \in AnalyzerLabellings : FinalizeResult(EditedJob, labels)
    \/ \E c \in 1..NumClients, keeps_id \in BOOLEAN : GetJobStatus(c, EditedJob, keeps_id)
    \/ \E c \in 1..NumClients, cluster_id \in ClusterIds,
          num_subclusters \in 1..MaxSubclusters : SplitRequest(c, cluster_id, num_subclusters)
    \/ \E c \in 1..NumClients, a, b \in ClusterIds : a < b /\ MergeRequest(c, <<a, b>>)
    \/ ExpireJob(EditedJob)

SpecSplit == InitResult /\ [][NextSplit]_vars

(***************************************************************************)
(* fit_bertopic: the clusterer of one job, run in a worker thread. The     *)
(* task's locals hold the request's granularity, algorithm and             *)
(* min_cluster_size, the effective min_cluster_size of every HDBSCAN that  *)
(* was built (runs) and the number of clusters the last run found.         *)
(***************************************************************************)

\* Largest min_cluster_size a request asks for.
MaxMinClusterSize == 60
\* Largest number of clusters a run of the clusterer finds.
MaxFound == 1

\* The job whose clusterer is followed.
FittedJob == 1

\* GRANULARITY_CONFIG[granularity]["min_cluster_size"]
GranularityMinClusterSize(granularity) ==
    CASE granularity = "low" -> 50
      [] granularity = "medium" -> 20
      [] granularity = "high" -> 8

\* _make_hdbscan_for_bertopic: the min_cluster_size the HDBSCAN is built
\* with is the larger of the given one and the granularity's.
EffectiveMinClusterSize(granularity, min_cluster_size) ==
    IF min_cluster_size >= GranularityMinClusterSize(granularity)
    THEN min_cluster_size
    ELSE GranularityMinClusterSize(granularity)

\* max(3, min_cluster_size // 3), what the retry hands to
\* _make_hdbscan_for_bertopic.
FallbackMinClusterSize(min_cluster_size) ==
    IF min_cluster_size \div 3 >= 3 THEN min_cluster_size \div 3 ELSE 3

\* The task is about to call fit_bertopic with the request's parameters.
InitRetry ==
    /\ jobs = [j \in Ids |-> IF j = FittedJob
                              THEN [NewJob(0, 0) EXCEPT !.status = "reducing", !.progress = 40]
                              ELSE NoJob]
    /\ results = [j \in Ids |-> NoResult]
    /\ texts = [j \in Ids |-> j = FittedJob]
    /\ vectors = [j \in Ids |-> j = FittedJob]
    /\ active = {FittedJob}
    /\ pc = [j \in Ids |-> IF j = FittedJob THEN "fit" ELSE "unused"]
    /\ \E granularity \in {"low", "medium", "high"}, algorithm \in {"hdbscan", "kmeans"},
          min_cluster_size \in 1..MaxMinClusterSize :
            loc = [j \in Ids |-> IF j = FittedJob
                                 THEN [granularity |-> granularity, algorithm |-> algorithm,
                                       min_cluster_size |-> min_cluster_size,
                                       runs |-> <<>>, n_found |-> -1]
                                 ELSE NoLoc]
    /\ enc = [j \in Ids |-> NoEnc]
    /\ client = [c \in Clients |-> Idle]
    /\ last = [c \in Clients |-> [op |-> "none", res |-> "none"]]
    /\ deleted = {}
    /\ overdue = {}

\* The first fit_transform: with HDBSCAN built by
\* _make_hdbscan_for_bertopic (with KMeans no min_cluster_size is used,
\* recorded as 0); it finds n_found clusters. Without a retry fit_bertopic
\* returns.
FitFirst(j, n_found) ==
    /\ pc[j] = "fit"
    /\ loc' = [loc EXCEPT ![j].runs =
                    <<IF loc[j].algorithm = "hdbscan"
                      THEN EffectiveMinClusterSize(loc[j].granularity, loc[j].min_cluster_size)
                      ELSE 0>>,
                  ![j].n_found = n_found]
    /\ Goto(j, IF loc[j].algorithm = "hdbscan" /\ n_found = 0 THEN "fit_retry" ELSE "fitted")
    /\ UNCHANGED <<store, enc, client, last, deleted, overdue>>

\* The fallback: a second HDBSCAN from _make_hdbscan_for_bertopic with
\* max(3, min_cluster_size // 3), a second fit_transform, and whatever it
\* finds is returned.
FitRetry(j, n_found) ==
    /\ pc[j] = "fit_retry"
    /\ loc' = [loc EXCEPT ![j].runs =
                    Append(@, EffectiveMinClusterSize(loc[j].granularity,
                                  FallbackMinClusterSize(loc[j].min_cluster_size))),
                  ![j].n_found = n_found]
    /\ Goto(j, "fitted")
    /\ UNCHANGED <<store, enc, client, last, deleted, overdue>>

NextRetry ==
    \/ \E n_found \in 0..MaxFound : FitFirst(FittedJob, n_found)
    \/ \E n_found \in 0..MaxFound : FitRetry(FittedJob, n_found)

SpecRetry == InitRetry /\ [][NextRetry]_vars

(***************************************************************************)
(* list_jobs. The ids are handed out in the order of creation, so the      *)
(* createdAt of the hash that create_job wrote for id j is modelled by j;  *)
(* a hash that an HSET of update_job, complete_job or fail_job created has *)
(* no createdAt field. The call is taken against the store as it is at one *)
(* moment.                                                                 *)
(***************************************************************************)

\* j.get("createdAt", "") as a sort key: 0 stands for the empty string.
CreatedAt(j) == IF jobs[j].config # -1 THEN j ELSE 0

\* The enumerations of a set, each member once.
Perms(S) ==
    {s \in [1..Cardinality(S) -> S] : \A i, k \in DOMAIN s : i # k => s[i] # s[k]}

\* results.sort(key=createdAt, reverse=True) of the ids in S with distinct
\* keys.
RECURSIVE NewestFirst(_)
NewestFirst(S) ==
    IF S = {} THEN <<>>
    ELSE LET j == CHOOSE x \in S : \A y \in S : CreatedAt(x) >= CreatedAt(y)
         IN <<j>> \o NewestFirst(S \ {j})

\* list_jobs: the hashes of the active ids, then those SCAN finds and that
\* were not seen yet, each put on the list when get_job finds it; the list
\* is sorted by createdAt, newest first. The sort is stable: the hashes
\* without createdAt come last, in the order SCAN gave them.
ListJobs(c) ==
    /\ client[c].pc = "idle"
    /\ \E unstamped \in Perms({j \in Ids : jobs[j].exists /\ CreatedAt(j) = 0}) :
            Returned(c, "list",
                NewestFirst({j \in Ids : jobs[j].exists /\ CreatedAt(j) # 0}) \o unstamped)
    /\ UNCHANGED <<store, pc, loc, enc, client, deleted, overdue>>

\* One handler submits, deletes and lists while the tasks run.
NextList ==
    \/ \E c \in 1..NumClients :
            \/ SubmitJob(c, MaxJobs)
            \/ CreateJobAdd(c, MaxJobs)
            \/ (\E j \in 1..MaxJobs : DeleteJobCheck(c, j))
            \/ DeleteJobExec(c)
            \/ ListJobs(c)
    \/ \E j \in Ids : BurstTaskStep(j) \/ FailNoTexts(j)
    \/ \E j \in Ids : EncoderReturn(j) \/ EncoderRaise(j)

SpecList == Init /\ [][NextList]_vars

(***************************************************************************)
(* The answers of the submission handlers                                  *)
(***************************************************************************)

\* submit_cluster_job: what the handler answers when submit_job raises exc.
SubmitResponse(exc) ==
    IF exc = "RuntimeError"
    THEN [status |-> 429, code |-> "QUEUE_FULL"]
    ELSE [status |-> 500, code |-> "PIPELINE_ERROR"]

\* recluster: what the handler answers when submit_recluster raises exc.
ReclusterResponse(exc) == [status |-> 500, code |-> "PIPELINE_ERROR"]

\* The answer caller c gets for the exception exc of the create_job it is in:
\* c came through submit_recluster when it holds the source's texts.
HandlerResponse(c, exc) ==
    IF client[c].pc = "recl_texts" THEN ReclusterResponse(exc) ELSE SubmitResponse(exc)

(***************************************************************************)
(* Properties                                                              *)
(***************************************************************************)

Terminal == {"completed", "failed"}

\* C1: under every interleaving of concurrent create_job calls, the active
\* set never holds more than MAX_CONCURRENT_JOBS job ids.
AdmissionCeiling == Cardinality(active) <= MAX_CONCURRENT_JOBS

\* A step of handler c out of "idle": in SpecAdmission, the first step of a
\* create_job call.
CreateJobCalled(c) ==
    /\ client[c].pc = "idle"
    /\ <<client[c], last[c]>>' # <<client[c], last[c]>>

\* C2: a create_job that finds MAX_CONCURRENT_JOBS or more ids in the active
\* set raises the capacity error, one that finds fewer goes on to create the
\* job; the active set is exactly the set of jobs whose task has not called
\* complete_job or fail_job yet, so a finished job makes room for the next.
CapacityRejectsThenAdmits ==
    /\ [](\A j \in Ids : (j \in active) <=> Running(j))
    /\ [][\A c \in Clients : CreateJobCalled(c) =>
            IF Cardinality(active) >= MAX_CONCURRENT_JOBS
            THEN client'[c].pc = "idle" /\ last'[c] = [op |-> "create", res |-> "capacity"]
            ELSE client'[c].pc = "checked" /\ last'[c] = last[c]]_vars

\* C2 witness: a submission was rejected at capacity, a job has finished and
\* the last id has been given to a later submission.
CapacityWitness ==
    /\ \E c \in Clients : last[c] = [op |-> "create", res |-> "capacity"]
    /\ \E c \in Clients : last[c] = [op |-> "create", res |-> "ok"]
    /\ \E j \in Ids : pc[j] = "done"
    /\ pc[MaxBurstJobs] = "start"
    /\ Cardinality(active) = MAX_CONCURRENT_JOBS

\* C3: a job id leaves the active set only in the step in which the task of
\* that job calls complete_job or fail_job.
SlotReleasedOnlyByCompleteOrFail ==
    [][\A j \in Ids : (j \in active /\ j \notin active') =>
            (pc[j] \in {"labeling", "except", "fail_notexts"} /\ pc'[j] = "done")]_vars

\* C4: whatever store call raises, a job whose task has ended (and that no
\* delete_job has removed) has status completed or failed and holds no
\* admission slot.
EveryAdmittedJobEnds ==
    \A j \in Ids : (pc[j] = "done" /\ j \notin deleted) =>
        (jobs[j].status \in Terminal /\ j \notin active)

\* C5: a run that has exceeded the maximum duration does not stay in a
\* non-terminal status for ever: it eventually has status completed or failed
\* and its admission slot is released.
OverdueRunEnds ==
    \A j \in Ids : (j \in overdue) ~> (jobs[j].status \in Terminal /\ j \notin active)

StatusRank(st) ==
    CASE st = "queued" -> 0
      [] st = "embedding" -> 1
      [] st = "reducing" -> 2
      [] st = "clustering" -> 3
      [] st = "labeling" -> 4
      [] st = "completed" -> 5
      [] st = "failed" -> 5
      [] OTHER -> -1

\* C6: a step that changes the status of a job record moves it forward in the
\* stage order or to failed, and never changes a status that is completed or
\* failed (the record of a terminal job can only be deleted).
StatusMovesForward ==
    [][\A j \in Ids :
        (jobs[j].status # "none" /\ jobs'[j].status # jobs[j].status) =>
            \/ ~jobs'[j].exists
            \/ /\ jobs[j].status \notin Terminal
               /\ StatusRank(jobs'[j].status) > StatusRank(jobs[j].status)]_vars

\* C6 witness: one job completed and another failed, both tasks ended.
StatusWitness ==
    \E j, k \in Ids :
        /\ pc[j] = "done" /\ jobs[j].status = "completed"
        /\ pc[k] = "done" /\ jobs[k].status = "failed"

\* C7: in every state a job record with status completed has progress 100,
\* a stored result, and no entry in the active set.
CompletedIsAtomic ==
    \A j \in Ids : (jobs[j].exists /\ jobs[j].status = "completed") =>
        (jobs[j].progress = 100 /\ results[j].exists /\ j \notin active)

\* C7 witness: a completed job with its result, while another job is active.
CompletedWitness ==
    \E j, k \in Ids :
        /\ jobs[j].status = "completed" /\ results[j].exists
        /\ k \in active

\* C8: an error of the Encoder reaches the task's except clause, and the
\* except clause of an Encoder or Analyzer error ends the task with status
\* failed, the error recorded, no result stored and the slot released.
RaiseFailsJob ==
    [][\A j \in Ids :
        /\ (pc[j] = "encoding" /\ enc[j].out = "err" /\ pc'[j] # "encoding") =>
                (pc'[j] = "except" /\ loc'[j].exc = "encoder")
        /\ (pc[j] = "except" /\ loc[j].exc \in {"encoder", "analyzer"}
                /\ pc'[j] # "except") =>
                /\ pc'[j] = "done"
                /\ jobs'[j].status = "failed"
                /\ jobs'[j].error = loc[j].exc
                /\ ~results'[j].exists
                /\ j \notin active']_vars

\* C8 witness: a job failed by the Encoder and a job failed by the Analyzer.
RaiseWitness ==
    \E j, k \in Ids :
        /\ pc[j] = "done" /\ jobs[j].status = "failed" /\ jobs[j].error = "encoder"
        /\ pc[k] = "done" /\ jobs[k].status = "failed" /\ jobs[k].error = "analyzer"

Placeholder == {"keywords", "klaster"}

\* C9: the labelling stage always ends in complete_job: the job is completed,
\* every topic whose Labeler call failed carries a fallback label, and the
\* suggestions are empty when the suggestion call failed.
LabelerFailureDegrades ==
    [][\A j \in Ids : (pc[j] = "labeling" /\ pc'[j] # "labeling") =>
            /\ pc'[j] = "done"
            /\ jobs'[j].status = "completed"
            /\ results'[j].exists
            /\ \A t \in Topics :
                    IF t \in results'[j].labelFailed
                    THEN results'[j].labels[t] \in Placeholder
                    ELSE results'[j].labels[t] = "llm"
            /\ results'[j].suggestFailed => results'[j].llmSuggestions = "empty"]_vars

\* C9 witness: a completed job for which the Labeler failed on one topic but
\* not on the other, and on the suggestions.
LabelerWitness ==
    \E j \in Ids :
        /\ jobs[j].status = "completed" /\ results[j].exists
        /\ results[j].labelFailed # {} /\ results[j].labelFailed # Topics
        /\ results[j].suggestFailed

\* C10: once delete_job has returned True for a job id, the job record, the
\* cached vectors and the texts of that id stay absent.
DeletedStaysDeleted ==
    \A j \in deleted : ~jobs[j].exists /\ ~vectors[j] /\ ~texts[j]

\* The keys of job j and its active-set entry are all gone.
AllRemoved(j) ==
    /\ ~jobs[j].exists /\ ~results[j].exists
    /\ ~texts[j] /\ ~vectors[j] /\ j \notin active

\* C11: a step that removes the job record, the result, the texts or the
\* cached vectors of a job id removes all of them and the active-set entry:
\* after the step none of the five is left.
DeleteRemovesAllAtOnce ==
    [][\A j \in Ids :
        (\/ jobs[j].exists /\ ~jobs'[j].exists
         \/ results[j].exists /\ ~results'[j].exists
         \/ texts[j] /\ ~texts'[j]
         \/ vectors[j] /\ ~vectors'[j]) => AllRemoved(j)']_vars

\* C11 witness: delete_job has returned True for a job that had run to its
\* end, and nothing of that job is left.
DeleteWitness ==
    \E j \in deleted, c \in Clients :
        /\ pc[j] = "done" /\ AllRemoved(j)
        /\ last[c] = [op |-> "delete", res |-> "true"]

\* C12: a delete_job that finds no job record returns False and leaves the
\* store as it is, and delete_job returns True at most once per job id.
DeleteIsIdempotent ==
    [][\A c \in Clients :
        /\ \A j \in Ids : (DeleteJobCheck(c, j) /\ ~jobs[j].exists) =>
                (last'[c] = [op |-> "delete", res |-> "false"] /\ store' = store)
        /\ (client[c].pc = "del_checked" /\ client'[c].pc = "idle") =>
                client[c].arg \notin deleted]_vars

\* The job was created by submit_recluster: its config names a source job.
Derived(j) == jobs[j].exists /\ jobs[j].config > 0

CacheMissFallsBack ==
    [][\A j \in Ids :
        /\ (pc[j] = "load_cache" /\ pc'[j] # "load_cache" /\ ~vectors[loc[j].src]) =>
                pc'[j] = "cache_miss"
        /\ (pc[j] = "cache_miss" /\ pc'[j] # "cache_miss") =>
                /\ pc'[j] = "encoding"
                /\ enc'[j].alive
                /\ jobs'[j].status # "failed"]_vars

\* C14 witness: a derived job has completed although the vectors of its
\* source had expired: the Encoder ran and the job has vectors of its own.
CacheMissWitness ==
    \E j \in Ids :
        /\ Derived(j) /\ jobs[j].status = "completed" /\ vectors[j]
        /\ jobs[j].config \notin deleted
        /\ pc[jobs[j].config] = "done" /\ ~vectors[jobs[j].config]

\* C15: submit_recluster for a source job without stored texts returns the
\* source-not-found error and writes nothing: the store is unchanged and no
\* task is created.
ReclusterOfMissingSource ==
    [][\A c \in Clients, src \in 1..MaxJobs :
        (SubmitRecluster(c, src, MaxJobs) /\ ~texts[src]) =>
            /\ last'[c] = [op |-> "recluster", res |-> "notfound"]
            /\ client'[c] = Idle
            /\ store' = store /\ pc' = pc]_vars /\
    [](\A j \in Ids : pc[j] = "unused" => (~jobs[j].exists /\ ~texts[j] /\ j \notin active))

\* C15 witness: a recluster was refused for a missing source while the store
\* holds another job.
MissingSourceWitness ==
    \E c \in Clients, j \in Ids :
        /\ last[c] = [op |-> "recluster", res |-> "notfound"]
        /\ jobs[j].exists /\ pc[1] # "unused" /\ ~texts[1]

\* The results a caller can get hold of: the stored ones and the one each
\* caller was handed back last.
StoredResult(j) == results[j].exists /\ "documents" \in DOMAIN results[j]

RECURSIVE SumDocumentCount(_)
SumDocumentCount(topics) ==
    IF topics = <<>> THEN 0 ELSE Head(topics).documentCount + SumDocumentCount(Tail(topics))

\* C16: the result that complete_job stores at the end of a run satisfies
\* sum of documentCount over its topics + noise = totalDocuments.
PipelineCountsAddUp ==
    [][\A j \in Ids : (pc[j] = "labeling" /\ pc'[j] = "done" /\ StoredResult(j)') =>
            SumDocumentCount(results'[j].topics) + results'[j].noise
                = results'[j].totalDocuments]_vars

\* Every topic's documentCount is the number of documents with its id.
CountsAreLive(r) ==
    \A n \in DOMAIN r.topics :
        r.topics[n].documentCount = Len(DocsIn(r.documents, {r.topics[n].id}))

\* C17: in every stored result and in every result handed back by the
\* pipeline, merge_clusters or reclassify_documents, each topic's
\* documentCount equals the number of documents whose clusterId is its id.
DocumentCountsAreLive ==
    /\ \A j \in Ids : StoredResult(j) => CountsAreLive(results[j])
    /\ \A c \in Clients : HoldsResult(c) => CountsAreLive(last[c].res)

\* Every document's clusterId is the id of a topic or the noise sentinel.
ReferencesExist(r) ==
    \A i \in DOMAIN r.documents :
        \/ r.documents[i].clusterId = Noise
        \/ \E n \in DOMAIN r.topics : r.topics[n].id = r.documents[i].clusterId

\* C18: in every stored result and in every result handed back, every
\* document's clusterId is a topic id or -1.
DocumentsReferenceTopics ==
    /\ \A j \in Ids : StoredResult(j) => ReferencesExist(results[j])
    /\ \A c \in Clients : HoldsResult(c) => ReferencesExist(last[c].res)

\* No topic is without documents.
NoEmptyTopic(r) ==
    \A n \in DOMAIN r.topics : DocsIn(r.documents, {r.topics[n].id}) # <<>>

\* C19: no result handed back by merge_clusters or reclassify_documents
\* holds a topic that no document references.
NoDanglingTopics ==
    \A c \in Clients : last[c].op \in {"merge", "reclassify"} => NoEmptyTopic(last[c].res)

\* noise and totalDocuments are what the documents say.
TotalsAreLive(r) ==
    /\ r.noise = Len(DocsIn(r.documents, {Noise}))
    /\ r.totalDocuments = Len(r.documents)

\* C20: in every stored result and in every result handed back, noise is
\* the number of documents with clusterId -1 and totalDocuments the number
\* of documents.
NoiseAndTotalAreLive ==
    /\ \A j \in Ids : StoredResult(j) => TotalsAreLive(results[j])
    /\ \A c \in Clients : HoldsResult(c) => TotalsAreLive(last[c].res)

\* C20 witness: a reclassify without job id has moved the noise documents
\* of the stored result into a new cluster.
NoiseWitness ==
    \E c \in Clients :
        /\ last[c].op = "reclassify" /\ ~HasJob(c)
        /\ StoredResult(EditedJob) /\ results[EditedJob].noise >= 3
        /\ last[c].res.noise = 0
        /\ last[c].res.totalDocuments = NumDocs

\* What merge_clusters owes its caller: before and after are the results
\* sent and handed back, S the ids named, L the label.
Merged(before, after, S, L) ==
    LET survivors == TopicsIn(after.topics, {Min(S)}) IN
    /\ Len(survivors) = 1
    /\ survivors[1].label = L
    /\ survivors[1].documentCount = Len(DocsIn(before.documents, S))
    /\ TopicsIn(after.topics, S \ {Min(S)}) = <<>>
    /\ Len(after.documents) = Len(before.documents)
    /\ \A i \in DOMAIN before.documents :
            IF before.documents[i].clusterId \in S
            THEN after.documents[i].clusterId = Min(S)
            ELSE after.documents[i] = before.documents[i]
    /\ TopicsIn(after.topics, ClusterIds \ S) = TopicsIn(before.topics, ClusterIds \ S)

\* C21: a merge of two distinct ids S with label L hands back (and, with a
\* job id, stores) a result with exactly one topic min(S), labelled L and
\* counting the documents that were in S, no topic of another id of S, the
\* documents of S moved to min(S), and every other document and topic as
\* it was.
MergeContract ==
    [][\A c \in Clients, a, b \in ClusterIds :
            (a < b /\ MergeRequest(c, <<a, b>>)) =>
                /\ Merged(last[c].res, last'[c].res, {a, b}, "merged")
                /\ HasJob(c) => /\ results'[EditedJob].documents = last'[c].res.documents
                                /\ results'[EditedJob].topics = last'[c].res.topics]_vars

\* C21 witness: a merge has moved the documents of a second cluster into
\* the noise cluster: the fetched result had three documents in each.
MergeWitness ==
    \E c \in Clients :
        /\ last[c].op = "merge" /\ ~HasJob(c)
        /\ StoredResult(EditedJob) /\ results[EditedJob].noise = 3
        /\ last[c].res.topics = <<[id |-> Noise, documentCount |-> NumDocs, label |-> "merged"]>>

\* The request of caller c has just ended in an error.
EndsInError(c) ==
    /\ last'[c] # last[c]
    /\ last'[c].op \in {"merge_error", "reclassify_error", "rename_error"}

\* C22: a merge, reclassify or rename request that ends in an error (too
\* few merge ids, too few pooled documents, a failure in the computation)
\* leaves every stored result as it was.
FailureLeavesStoredResult ==
    [][\A c \in Clients : EndsInError(c) => results' = results]_vars

\* C22 witness: a reclassify sent with the job id was refused for too few
\* pooled documents while the job's result is stored.
FailureWitness ==
    \E c \in Clients :
        /\ last[c].op = "reclassify_error" /\ last[c].code = "PIPELINE_ERROR"
        /\ HasJob(c)
        /\ StoredResult(EditedJob)
        /\ results[EditedJob].noise \in 1..2

\* C23: a rename with a job id whose stored result has no topic of the given
\* id ends in NOT_FOUND and reports no update; a rename without job id
\* reports the update and writes nothing.
RenameOfMissingTopic ==
    [][\A c \in Clients, topic_id \in ClusterIds :
        /\ (/\ RenameTopic(c, topic_id, "renamed", TRUE)
            /\ StoredResult(EditedJob)
            /\ TopicsIn(results[EditedJob].topics, {topic_id}) = <<>>)
                => /\ last'[c].op = "rename_error"
                   /\ last'[c].code = "NOT_FOUND"
                   /\ results' = results
        /\ RenameTopic(c, topic_id, "renamed", FALSE)
                => /\ last'[c].op = "rename"
                   /\ last'[c].updated
                   /\ results' = results]_vars

\* What reclassify_documents owes its caller: before and after are the
\* results sent and handed back, from_ids the source ids.
Reclassified(before, after, from_ids) ==
    LET other_docs == SelectSeq(before.documents, LAMBDA d : d.clusterId \notin from_ids)
        old_ids == {before.topics[n].id : n \in DOMAIN before.topics}
    IN /\ Len(after.documents) = Len(before.documents)
       /\ SubSeq(after.documents, 1, Len(other_docs)) = other_docs
       /\ \A i \in (Len(other_docs) + 1)..Len(after.documents) :
            \A old \in old_ids : after.documents[i].clusterId > old
       /\ \A n \in DOMAIN after.topics :
            after.topics[n].id \in from_ids => after.topics[n].id \notin old_ids

\* C24: a reclassify request that pools fewer than 3 * num_clusters
\* documents ends in INVALID_INPUT; one that pools enough gives the pooled
\* documents ids greater than every earlier topic id, leaves no source
\* topic, and leaves the other documents their clusterId.
ReclassifyContract ==
    [][\A c \in Clients :
        (last'[c] # last[c] /\ last'[c].op \in {"reclassify", "reclassify_error"}) =>
            \A from_ids \in SUBSET ClusterIds \ {{}}, num_clusters \in 1..MaxNumClusters :
                /\ ReclassifyRefused(c, from_ids, num_clusters)
                        => last'[c].code = "INVALID_INPUT"
                /\ \A env \in ReclassifyEnvs :
                        ReclassifyRequest(c, from_ids, num_clusters, env)
                            => Reclassified(last[c].res, last'[c].res, from_ids)]_vars

\* What a split owes its caller: before and after are the results sent and
\* handed back, n the number of subclusters.
SplitInto(before, after, cluster_id, n) ==
    LET old_ids == {before.topics[k].id : k \in DOMAIN before.topics}
        fresh == SelectSeq(after.topics, LAMBDA t : t.id \notin old_ids)
    IN /\ Len(fresh) = n
       /\ \A k \in DOMAIN fresh :
            /\ fresh[k].documentCount >= 1
            /\ fresh[k].documentCount = Len(DocsIn(after.documents, {fresh[k].id}))
            /\ \A old \in old_ids : fresh[k].id > old
       /\ \A k, m \in DOMAIN fresh : k # m => fresh[k].id # fresh[m].id
       /\ SumDocumentCount(fresh) = Len(DocsIn(before.documents, {cluster_id}))
       /\ TopicsIn(after.topics, {cluster_id}) = <<>>

CapacityIsRetryable ==
    [][\A c \in Clients :
        (last'[c] # last[c] /\ last'[c] = [op |-> "create", res |-> "capacity"]) =>
            /\ HandlerResponse(c, "RuntimeError").status = 429
            /\ HandlerResponse(c, "RuntimeError") # HandlerResponse(c, "Exception")]_vars

\* C27: the stored result of a job that is not deleted does not go away
\* while the job's cached vectors are still stored.
ResultOutlivesVectors ==
    [][\A j \in Ids :
        (results[j].exists /\ ~results'[j].exists /\ j \notin deleted') => ~vectors'[j]]_vars

\* C28: list_jobs returns every id whose hash exists exactly once, whether
\* or not the id is active, no id whose hash is absent, and the later
\* created id before the earlier.
ListIsExactAndNewestFirst ==
    [][\A c \in Clients : ListJobs(c) =>
        LET r == last'[c].res IN
        /\ \A j \in Ids : jobs[j].exists <=> Cardinality({i \in DOMAIN r : r[i] = j}) = 1
        /\ \A i \in DOMAIN r : jobs[r[i]].exists
        /\ \A i, k \in DOMAIN r : i < k => r[i] > r[k]]_vars

\* C29: a task leaves the Vectorize stage only through a step that stores
\* the vectors under the job's own id (after fresh encoding, after a cache
\* hit, after a cache miss with re-encoding), and when the status becomes
\* reducing those vectors are stored unless the job was deleted meanwhile.
VectorsStoredBeforeReducing ==
    [][\A j \in Ids :
        /\ (pc[j] # "p35" /\ pc'[j] = "p35") =>
                /\ pc[j] \in {"encoding", "cache_vectors"}
                /\ vectors'[j]
        /\ (pc[j] # "set_reducing" /\ pc'[j] = "set_reducing") => pc[j] = "p35"
        /\ (jobs[j].status # "reducing" /\ jobs'[j].status = "reducing") =>
                /\ pc[j] = "set_reducing"
                /\ vectors[j] \/ j \in deleted]_vars

\* C29 witness: a derived job that found its source's vectors is reducing
\* and has vectors of its own.
ReducingWitness ==
    \E j \in Ids :
        /\ Derived(j) /\ jobs[j].status = "reducing" /\ vectors[j]
        /\ j \notin deleted
        /\ vectors[jobs[j].config]

\* The progress field of a hash is a percentage, and so is what the monitor
\* loop is about to write.
ProgressInRange ==
    \A j \in Ids :
        /\ (jobs[j].exists /\ jobs[j].progress # -1) => jobs[j].progress \in 0..100
        /\ loc[j].last_progress \in 5..35
        /\ \A i \in DOMAIN enc[j].progress_queue :
                /\ EncodeProgress(enc[j].progress_queue[i], EncBatches) \in 5..35
                /\ i > 1 => EncodeProgress(enc[j].progress_queue[i - 1], EncBatches)
                                <= EncodeProgress(enc[j].progress_queue[i], EncBatches)

\* C30: the progress written to a job's hash is within 0..100 and never
\* goes down while the hash exists; the progress computed from the
\* Encoder's batch reports is within 5..35 and does not go down as more
\* items are processed.
ProgressIsMonotone ==
    [][/\ ProgressInRange /\ ProgressInRange'
       /\ \A j \in Ids :
            /\ (jobs[j].exists /\ jobs'[j].exists /\ jobs[j].progress # -1) =>
                    jobs'[j].progress >= jobs[j].progress
            /\ (pc[j] = "encoding" /\ pc'[j] = "encoding") =>
                    loc'[j].last_progress >= loc[j].last_progress
            /\ \A p \in 0..(EncBatches - 1) :
                    EncodeProgress(p, EncBatches) <= EncodeProgress(p + 1, EncBatches)]_vars

\* C30 witness: the hash of a job that is being encoded carries the
\* progress of the first of the Encoder's batches.
ProgressWitness ==
    \E j \in Ids :
        /\ pc[j] = "encoding" /\ jobs[j].exists /\ jobs[j].status = "embedding"
        /\ jobs[j].progress = EncodeProgress(1, EncBatches)
        /\ jobs[j].progress \in 6..34

\* The stored result of the edited job has a topic of that id with that label.
StoredLabel(rs, topic_id, label) ==
    /\ rs[EditedJob].exists /\ "topics" \in DOMAIN rs[EditedJob]
    /\ \E n \in DOMAIN rs[EditedJob].topics :
            /\ rs[EditedJob].topics[n].id = topic_id
            /\ rs[EditedJob].topics[n].label = label

\* C31: a merge or reclassify sent with the job id builds on the stored
\* result: a label that an earlier rename gave to a stored topic is still
\* in the stored result after a merge or reclassify of other clusters.
RenameSurvivesLaterMutations ==
    [][\A c \in Clients, t \in ClusterIds :
        (/\ last'[c] # last[c]
         /\ last'[c].op \in {"merge", "reclassify"}
         /\ HasJob(c)
         /\ StoredLabel(results, t, "renamed")
         /\ \/ \E a, b \in ClusterIds \ {t} : MergeRequest(c, <<a, b>>)
            \/ \E from_ids \in SUBSET (ClusterIds \ {t}), env \in ReclassifyEnvs :
                    ReclassifyRequest(c, from_ids, 1, env))
            => StoredLabel(results', t, "renamed")]_vars

\* The caller's request was a rename, merge or reclassify that carried the
\* job id and went through.
MutatedWithJob(c) ==
    /\ last'[c] # last[c]
    /\ last'[c].op \in {"rename", "merge", "reclassify"}
    /\ HasJob(c)

\* C32: a rename, merge or reclassify with a job id leaves the job hash, the
\* texts, the vectors, the active set and the results of other jobs as they
\* were, and the result it writes has the jobId and the meta of the result
\* that was stored before.
MutationWritesOnlyResult ==
    [][\A c \in Clients : MutatedWithJob(c) =>
        /\ UNCHANGED <<jobs, texts, vectors, active>>
        /\ \A j \in Ids \ {EditedJob} : results'[j] = results[j]
        /\ results[EditedJob].exists =>
                /\ results'[EditedJob].exists
                /\ results'[EditedJob].jobId = results[EditedJob].jobId
                /\ results'[EditedJob].meta = results[EditedJob].meta]_vars

\* C32 witness: a merge sent with the job id has rewritten the stored
\* result, which still carries the meta the run gave it.
MutationWitness ==
    \E c \in Clients :
        /\ last[c].op = "merge" /\ HasJob(c)
        /\ StoredResult(EditedJob)
        /\ results[EditedJob] = last[c].res
        /\ results[EditedJob].meta = [iteration |-> 0, usedCachedEmbeddings |-> FALSE]
        /\ results[EditedJob].jobId = EditedJob

\* C33: when the first HDBSCAN run finds no cluster there is exactly one
\* more run, with a strictly smaller effective min_cluster_size, and its
\* result is returned whatever it is; when the first run finds a cluster
\* there is no second run.
RetryIsRelaxed ==
    pc[FittedJob] = "fitted" /\ loc[FittedJob].algorithm = "hdbscan" =>
        LET runs == loc[FittedJob].runs IN
        /\ Len(runs) \in 1..2
        /\ Len(runs) = 2 => runs[2] < runs[1]

\* C34: the seed of a run is 42 plus the iteration given at submission (so
\* the runs of two jobs submitted with different iterations have different
\* seeds), and the iteration in the meta of the stored result is the
\* submitted one.
SeedFollowsIteration ==
    \A j \in Ids :
        /\ (pc[j] \notin {"unused", "start", "done"} /\ jobs[j].exists) =>
                Seed(loc[j].iteration) = 42 + jobs[j].cfgIteration
        /\ (results[j].exists /\ jobs[j].exists) =>
                results[j].meta.iteration = jobs[j].cfgIteration
        /\ \A k \in Ids :
                (/\ pc[j] \notin {"unused", "start", "done"} /\ jobs[j].exists
                 /\ pc[k] \notin {"unused", "start", "done"} /\ jobs[k].exists
                 /\ jobs[j].cfgIteration # jobs[k].cfgIteration) =>
                    Seed(loc[j].iteration) # Seed(loc[k].iteration)

\* C35: the status of a job that is not deleted goes through embedding,
\* reducing, clustering, labeling and completed one after the other, none of
\* them left out, and the Labeler is called only under the status labeling.
StagesAreAnnounced ==
    [][\A j \in Ids :
        /\ (/\ jobs[j].exists /\ jobs'[j].exists
            /\ jobs'[j].status # jobs[j].status
            /\ jobs'[j].status # "failed") =>
                StatusRank(jobs'[j].status) = StatusRank(jobs[j].status) + 1
        /\ (pc[j] = "labeling" /\ jobs[j].exists) => jobs[j].status = "labeling"]_vars

\* C36: with no key expiring, a stored result of a job id means that the
\* texts of that job id are stored.
ResultHasTexts ==
    \A j \in Ids : results[j].exists => texts[j]

\* C37: every job hash in the store carries an expiry.
EveryJobExpires ==
    \A j \in Ids : jobs[j].exists => jobs[j].ttl

\* No two topics of the result have the same id.
DistinctTopicIds(r) ==
    \A m, n \in DOMAIN r.topics : r.topics[m].id = r.topics[n].id => m = n

\* C38: the topic ids of every stored result and of every result handed
\* back by a merge or reclassify are pairwise distinct.
TopicIdsAreDistinct ==
    /\ StoredResult(EditedJob) => DistinctTopicIds(results[EditedJob])
    /\ \A c \in Clients : HoldsResult(c) => DistinctTopicIds(last[c].res)

\* The document at position i (counted from 0) is doc-i.
InJobOrder(r) ==
    \A i \in DOMAIN r.documents : r.documents[i].id = i - 1

\* C39: in every stored result and in every result handed back by a
\* mutation, the document at position i is the document doc-i, so that the
\* position at which reclassify_documents finds a document in the list is
\* the row of its vector and its text.
DocumentsStayInJobOrder ==
    /\ StoredResult(EditedJob) => InJobOrder(results[EditedJob])
    /\ \A c \in Clients : HoldsResult(c) => InJobOrder(last[c].res)

====
